---- MODULE Spec2Model ----
(***************************************************************************)
(* The wire-protocol core of udpx (package core): the byte-cursor codec,   *)
(* the 19-byte address codec, the Pittle and Chonkle packet tags and the   *)
(* basic and advanced packet filters.                                      *)
(*                                                                         *)
(* Go indexes from 0 and TLA+ sequences from 1: Go's data[i] is data[i+1]  *)
(* here, and a cursor keeps its Go value.  An unsigned integer wider than  *)
(* 16 bits is held as its base-65536 digits, most significant first        *)
(* (uint32: <<hi, lo>>, uint64: four digits), so that no intermediate      *)
(* value leaves TLC's integer range.  int is 64 bits wide (amd64).         *)
(***************************************************************************)
EXTENDS Integers, Sequences, FiniteSets

VARIABLES
    \* byte-cursor codec
    data, index, value, ok, cpc, wop, rop, p, windex, wvalue, arg,
    \* address codec
    address, buffer, result, apc,
    \* tags and filters
    magic, fromAddress, fromPort, toAddress, toPort, packetLength,
    a, b, packet, packetLen, sent, tampered, verdictBasic, verdictAdvanced, fpc,
    \* Chonkle over an arbitrary hash value
    hashValue, output, header, verdict, hpc

cvars == <<data, index, value, ok, cpc, wop, rop, p, windex, wvalue, arg>>
avars == <<address, buffer, result, apc>>
fvars == <<magic, fromAddress, fromPort, toAddress, toPort, packetLength,
           a, b, packet, packetLen, sent, tampered, verdictBasic, verdictAdvanced, fpc>>
hvars == <<hashValue, output, header, verdict, hpc>>
vars == <<cvars, avars, fvars, hvars>>

----------------------------------------------------------------------------
(* Bytes and bit operations on them.                                       *)

Byte == 0..255

RECURSIVE BitAnd(_, _)
BitAnd(x, y) ==
    IF x = 0 \/ y = 0 THEN 0
    ELSE (IF x % 2 = 1 /\ y % 2 = 1 THEN 1 ELSE 0) + 2 * BitAnd(x \div 2, y \div 2)

RECURSIVE BitXor(_, _)
BitXor(x, y) ==
    IF x = 0 THEN y
    ELSE IF y = 0 THEN x
    ELSE (IF x % 2 = y % 2 THEN 0 ELSE 1) + 2 * BitXor(x \div 2, y \div 2)

RECURSIVE BitOr(_, _)
BitOr(x, y) ==
    IF x = 0 THEN y
    ELSE IF y = 0 THEN x
    ELSE (IF x % 2 = 1 \/ y % 2 = 1 THEN 1 ELSE 0) + 2 * BitOr(x \div 2, y \div 2)

Fill(n, f) == [i \in 1..n |-> f]

----------------------------------------------------------------------------
(* encoding/binary.LittleEndian as the codec uses it.                      *)

\* byte(v >> (8*k)) of a multi-digit unsigned integer v
ByteOf(v, k) ==
    LET digit == v[Len(v) - (k \div 2)]
    IN  IF k % 2 = 1 THEN (digit \div 256) % 256 ELSE digit % 256

\* b[0] | b[1]<<8 | ... of the w bytes at Go offset i, as w/2 digits
DigitsAt(buf, i, w) ==
    [j \in 1..(w \div 2) |->
        buf[i + w - 2 * j + 1] + 256 * buf[i + w - 2 * j + 2]]

PutBytes(buf, i, v, w) ==
    [k \in 1..Len(buf) |->
        IF k > i /\ k <= i + w THEN ByteOf(v, k - i - 1) ELSE buf[k]]

PutUint16(buf, i, v) == PutBytes(buf, i, v, 2)
PutUint32(buf, i, v) == PutBytes(buf, i, v, 4)
PutUint64(buf, i, v) == PutBytes(buf, i, v, 8)
Uint16(buf, i) == DigitsAt(buf, i, 2)
Uint32(buf, i) == DigitsAt(buf, i, 4)
Uint64(buf, i) == DigitsAt(buf, i, 8)

(* math.Float32bits and friends.  A float32 is <<sign, exponent, fraction>>,*)
(* a float64 <<sign, exponent, f3, f2, f1, f0>> with the 52-bit fraction  *)
(* in 16-bit digits (f3 holds its top 4 bits).                             *)
Float32bits(f) == <<f[1] * 32768 + f[2] * 128 + (f[3] \div 65536), f[3] % 65536>>
Float32frombits(u) == <<u[1] \div 32768, (u[1] \div 128) % 256, (u[1] % 128) * 65536 + u[2]>>
Float64bits(f) == <<f[1] * 32768 + f[2] * 16 + f[3], f[4], f[5], f[6]>>
Float64frombits(u) == <<u[1] \div 32768, (u[1] \div 16) % 2048, u[1] % 16, u[2], u[3], u[4]>>

\* uint32 comparison a > b
Uint32Gt(x, y) == x[1] > y[1] \/ (x[1] = y[1] /\ x[2] > y[2])

\* i + int(u) > n for a cursor i and a length n below 65536
IndexPlusExceeds(i, u, n) == u[1] > 0 \/ i + u[2] > n

----------------------------------------------------------------------------
(* The write primitives.  An index or slice out of range panics.           *)

Panicked(buf, i) == [panic |-> TRUE, data |-> buf, index |-> i]
Written(buf, i) == [panic |-> FALSE, data |-> buf, index |-> i]

WriteBool(buf, i, v) ==
    IF i >= Len(buf) THEN Panicked(buf, i)
    ELSE Written([buf EXCEPT ![i + 1] = IF v = <<1>> THEN 1 ELSE 0], i + 1)

WriteUint8(buf, i, v) ==
    IF i >= Len(buf) THEN Panicked(buf, i)
    ELSE Written([buf EXCEPT ![i + 1] = v[1] % 256], i + 1)

WriteUint16(buf, i, v) ==
    IF i + 2 > Len(buf) THEN Panicked(buf, i)
    ELSE Written(PutUint16(buf, i, v), i + 2)

\* WriteUint32 advancing the cursor as WriteUint16 does
WriteUint32ShortAdvance(buf, i, v) ==
    IF i + 4 > Len(buf) THEN Panicked(buf, i)
    ELSE Written(PutUint32(buf, i, v), i + 2)

WriteUint32(buf, i, v) ==
    IF i + 4 > Len(buf) THEN Panicked(buf, i)
    ELSE Written(PutUint32(buf, i, v), i + 4)

WriteUint64(buf, i, v) ==
    IF i + 8 > Len(buf) THEN Panicked(buf, i)
    ELSE Written(PutUint64(buf, i, v), i + 8)

WriteFloat32(buf, i, v) == WriteUint32(buf, i, Float32bits(v))

WriteFloat64(buf, i, v) == WriteUint64(buf, i, Float64bits(v))

----------------------------------------------------------------------------
(* The read primitives: the returned flag, and the cursor and the output   *)
(* variable as they stand after the call.                                  *)

Ret(r, i, v) == [ok |-> r, index |-> i, value |-> v]

ReadBool(buf, i, v) ==
    IF i + 1 > Len(buf) THEN Ret(FALSE, i, v)
    ELSE Ret(TRUE, i + 1, IF buf[i + 1] > 0 THEN <<1>> ELSE <<0>>)

ReadUint8(buf, i, v) ==
    IF i + 1 > Len(buf) THEN Ret(FALSE, i, v)
    ELSE Ret(TRUE, i + 1, <<buf[i + 1]>>)

ReadUint16(buf, i, v) ==
    IF i + 2 > Len(buf) THEN Ret(FALSE, i, v)
    ELSE Ret(TRUE, i + 2, Uint16(buf, i))

ReadUint32(buf, i, v) ==
    IF i + 4 > Len(buf) THEN Ret(FALSE, i, v)
    ELSE Ret(TRUE, i + 4, Uint32(buf, i))

ReadUint64(buf, i, v) ==
    IF i + 8 > Len(buf) THEN Ret(FALSE, i, v)
    ELSE Ret(TRUE, i + 8, Uint64(buf, i))

ReadFloat32(buf, i, v) ==
    LET r == ReadUint32(buf, i, <<0, 0>>)
    IN  IF ~r.ok THEN Ret(FALSE, r.index, v)
        ELSE Ret(TRUE, r.index, Float32frombits(r.value))

ReadFloat64(buf, i, v) ==
    LET r == ReadUint64(buf, i, <<0, 0, 0, 0>>)
    IN  IF ~r.ok THEN Ret(FALSE, r.index, v)
        ELSE Ret(TRUE, r.index, Float64frombits(r.value))

\* the copy loop of ReadString and ReadBytes: n bytes from the cursor on
CopyOut(buf, i, n) == [k \in 1..n |-> buf[i + k]]

\* ReadString without the test against maxStringLength
ReadStringNoMaximum(buf, i, v, maxStringLength) ==
    LET r == ReadUint32(buf, i, <<0, 0>>)
        stringLength == r.value
    IN  IF ~r.ok THEN Ret(FALSE, r.index, v)
        ELSE IF IndexPlusExceeds(r.index, stringLength, Len(buf)) THEN Ret(FALSE, r.index, v)
        ELSE Ret(TRUE, r.index + stringLength[2], CopyOut(buf, r.index, stringLength[2]))

ReadString(buf, i, v, maxStringLength) ==
    LET r == ReadUint32(buf, i, <<0, 0>>)
        stringLength == r.value
    IN  IF ~r.ok THEN Ret(FALSE, r.index, v)
        ELSE IF Uint32Gt(stringLength, maxStringLength) THEN Ret(FALSE, r.index, v)
        ELSE IF IndexPlusExceeds(r.index, stringLength, Len(buf)) THEN Ret(FALSE, r.index, v)
        ELSE Ret(TRUE, r.index + stringLength[2], CopyOut(buf, r.index, stringLength[2]))

ReadBytes(buf, i, v, bytes) ==
    IF IndexPlusExceeds(i, bytes, Len(buf)) THEN Ret(FALSE, i, v)
    ELSE Ret(TRUE, i + bytes[2], CopyOut(buf, i, bytes[2]))

----------------------------------------------------------------------------
(* The codec's callers: a buffer and a start position p are drawn, then    *)
(* either one read primitive is called at p, or one write primitive is     *)
(* called at p and the matching read primitive is called at p on what was  *)
(* written.                                                                *)

MaxBuf == 9
MaxStr == 3

\* what the output variable holds before a read: no decoded value equals it
Prior == <<-1>>
NoArg == <<0, 0>>

FillBuffers == {Fill(n, f) : n \in 0..MaxBuf, f \in {0, 255}}
Prefixes ==
    {<<n, 0, 0, 0>> : n \in 0..(MaxStr + 1)}
        \cup {<<1, 1, 0, 0>>, <<0, 0, 1, 0>>, <<0, 0, 0, 128>>, <<255, 255, 255, 255>>}
Payloads == UNION {[1..n -> {65, 0}] : n \in 0..MaxStr}
StringBuffers == {pre \o pay : pre \in Prefixes, pay \in Payloads}
Buffers == FillBuffers \cup StringBuffers

Bools == {<<0>>, <<1>>}
Uint8s == {<<0>>, <<1>>, <<127>>, <<128>>, <<255>>}
Uint16s == {<<0>>, <<1>>, <<255>>, <<256>>, <<43981>>, <<65535>>}
Uint32s == {<<0, 0>>, <<0, 1>>, <<0, 65535>>, <<1, 0>>, <<4660, 22136>>,
            <<32768, 0>>, <<65535, 65535>>}
Uint64s == {<<0, 0, 0, 0>>, <<0, 0, 0, 1>>, <<0, 0, 1, 0>>, <<291, 17767, 35243, 52719>>,
            <<32768, 0, 0, 0>>, <<65535, 65535, 65535, 65535>>}
\* +0, -0, 1.0, the infinities, a quiet and a signalling NaN with payloads
Float32s == {<<0, 0, 0>>, <<1, 0, 0>>, <<0, 127, 0>>, <<0, 255, 0>>, <<1, 255, 0>>,
             <<0, 255, 4194305>>, <<1, 255, 1193046>>, <<0, 1, 8388607>>}
Float64s == {<<0, 0, 0, 0, 0, 0>>, <<1, 0, 0, 0, 0, 0>>, <<0, 1023, 0, 0, 0, 0>>,
             <<0, 2047, 0, 0, 0, 0>>, <<1, 2047, 0, 0, 0, 0>>, <<0, 2047, 8, 0, 0, 1>>,
             <<1, 2047, 5, 4660, 22136, 39612>>, <<0, 1, 15, 65535, 65535, 65535>>}
MaxLens == {<<0, 0>>, <<0, 2>>, <<0, MaxStr>>, <<0, 255>>, <<65535, 65535>>}
Counts == {<<0, 0>>, <<0, 1>>, <<0, MaxStr>>, <<1, 0>>, <<65535, 65535>>}

CodecIdle ==
    /\ data = <<>> /\ index = 0 /\ value = Prior /\ ok = FALSE /\ cpc = "off"
    /\ wop = "none" /\ rop = "none" /\ p = 0 /\ windex = 0 /\ wvalue = Prior /\ arg = NoArg

CodecInit ==
    /\ data \in Buffers
    /\ p \in 0..Len(data)
    /\ index = p /\ windex = p
    /\ value = Prior /\ wvalue = Prior /\ arg = NoArg
    /\ ok = FALSE /\ cpc = "start" /\ wop = "none" /\ rop = "none"

\* a write primitive called with the cursor at p
DoWrite(name, v, r) ==
    /\ cpc = "start"
    /\ cpc' = IF r.panic THEN "panic" ELSE "written"
    /\ wop' = name
    /\ wvalue' = v
    /\ data' = r.data
    /\ windex' = r.index
    /\ UNCHANGED <<index, value, ok, rop, p, arg, avars, fvars, hvars>>

\* a read primitive called with the cursor at p and the output holding Prior
DoRead(name, r, x) ==
    /\ cpc = "start" \/ (cpc = "written" /\ wop = name)
    /\ cpc' = "read"
    /\ rop' = name
    /\ ok' = r.ok
    /\ index' = r.index
    /\ value' = r.value
    /\ arg' = x
    /\ UNCHANGED <<data, wop, p, windex, wvalue, avars, fvars, hvars>>

CallWriteBool == \E v \in Bools : DoWrite("Bool", v, WriteBool(data, p, v))
CallWriteUint8 == \E v \in Uint8s : DoWrite("Uint8", v, WriteUint8(data, p, v))
CallWriteUint16 == \E v \in Uint16s : DoWrite("Uint16", v, WriteUint16(data, p, v))
CallWriteUint32 == \E v \in Uint32s : DoWrite("Uint32", v, WriteUint32(data, p, v))
CallWriteUint64 == \E v \in Uint64s : DoWrite("Uint64", v, WriteUint64(data, p, v))
CallWriteFloat32 == \E v \in Float32s : DoWrite("Float32", v, WriteFloat32(data, p, v))
CallWriteFloat64 == \E v \in Float64s : DoWrite("Float64", v, WriteFloat64(data, p, v))

CallReadBool == DoRead("Bool", ReadBool(data, p, Prior), NoArg)
CallReadUint8 == DoRead("Uint8", ReadUint8(data, p, Prior), NoArg)
CallReadUint16 == DoRead("Uint16", ReadUint16(data, p, Prior), NoArg)
CallReadUint32 == DoRead("Uint32", ReadUint32(data, p, Prior), NoArg)
CallReadUint64 == DoRead("Uint64", ReadUint64(data, p, Prior), NoArg)
CallReadFloat32 == DoRead("Float32", ReadFloat32(data, p, Prior), NoArg)
CallReadFloat64 == DoRead("Float64", ReadFloat64(data, p, Prior), NoArg)
CallReadString == \E m \in MaxLens : DoRead("String", ReadString(data, p, Prior, m), m)
CallReadBytes == \E n \in Counts : DoRead("Bytes", ReadBytes(data, p, Prior, n), n)

CodecNext ==
    \/ CallWriteBool \/ CallWriteUint8 \/ CallWriteUint16 \/ CallWriteUint32
    \/ CallWriteUint64 \/ CallWriteFloat32 \/ CallWriteFloat64
    \/ CallReadBool \/ CallReadUint8 \/ CallReadUint16 \/ CallReadUint32
    \/ CallReadUint64 \/ CallReadFloat32 \/ CallReadFloat64
    \/ CallReadString \/ CallReadBytes

----------------------------------------------------------------------------
(* The address codec.  An address is a *net.UDPAddr: nil, or an IP (a byte *)
(* slice) and a port.                                                      *)

IPAddressNone == 0
IPAddressIPv4 == 1
IPAddressIPv6 == 2
AddressSize == 19

NilAddress == [nil |-> TRUE, IP |-> <<>>, Port |-> 0]
UDPAddr(ip, port) == [nil |-> FALSE, IP |-> ip, Port |-> port]

v4InV6Prefix == <<0, 0, 0, 0, 0, 0, 0, 0, 0, 0, 255, 255>>

\* net.IP.To4: the 4-byte form of an IPv4 address, <<>> (nil) for any other
To4(ip) ==
    IF Len(ip) = 4 THEN ip
    ELSE IF Len(ip) = 16 /\ SubSeq(ip, 1, 12) = v4InV6Prefix THEN SubSeq(ip, 13, 16)
    ELSE <<>>

\* net.IPv4: the 16-byte form
IPv4(b1, b2, b3, b4) == v4InV6Prefix \o <<b1, b2, b3, b4>>

\* copy(dst[at:], src)
Copy(dst, at, src) ==
    [k \in 1..Len(dst) |->
        IF k > at /\ k - at <= Len(src) THEN src[k - at] ELSE dst[k]]

WriteAddress(buf, addr) ==
    IF addr.nil THEN [buf EXCEPT ![1] = IPAddressNone]
    ELSE LET ipv4 == To4(addr.IP)
             port == addr.Port
         IN  IF ipv4 # <<>>
             THEN [buf EXCEPT ![1] = IPAddressIPv4,
                              ![2] = ipv4[1], ![3] = ipv4[2], ![4] = ipv4[3], ![5] = ipv4[4],
                              ![6] = BitAnd(port, 255),
                              ![7] = (port \div 256) % 256]
             ELSE [Copy([buf EXCEPT ![1] = IPAddressIPv6], 1, addr.IP)
                        EXCEPT ![18] = BitAnd(port, 255),
                               ![19] = (port \div 256) % 256]

ReadAddress(buf) ==
    LET addressType == buf[1]
    IN  IF addressType = IPAddressIPv4
        THEN UDPAddr(IPv4(buf[2], buf[3], buf[4], buf[5]), Uint16(buf, 5)[1])
        ELSE IF addressType = IPAddressIPv6
        THEN UDPAddr(SubSeq(buf, 2, Len(buf)), Uint16(buf, 17)[1])
        ELSE NilAddress

Octets == {1, 203, 255}
Ports == {0, 1, 255, 256, 40000, 65535}
IPv4Addresses == [1..4 -> Octets]
IPv6Addresses ==
    {Fill(15, 0) \o <<1>>,
     <<32, 1, 13, 184>> \o Fill(11, 0) \o <<1>>,
     Fill(16, 255),
     <<254, 128>> \o Fill(6, 0) \o <<2, 0, 94, 255, 254, 0, 83, 1>>}
\* IPv4 addresses in the 16-byte form net.ParseIP gives
MappedAddresses == {IPv4(203, 0, 113, 5), IPv4(1, 2, 3, 4)}
Addresses ==
    {NilAddress} \cup
    {UDPAddr(ip, port) :
        ip \in IPv4Addresses \cup IPv6Addresses \cup MappedAddresses, port \in Ports}

AddrIdle ==
    /\ address = NilAddress /\ buffer = <<>> /\ result = NilAddress /\ apc = "off"

AddrInit ==
    /\ address \in Addresses
    /\ buffer \in {Fill(AddressSize, f) : f \in {0, 255}}
    /\ result = NilAddress
    /\ apc = "start"

CallWriteAddress ==
    /\ apc = "start"
    /\ buffer' = WriteAddress(buffer, address)
    /\ apc' = "written"
    /\ UNCHANGED <<address, result, cvars, fvars, hvars>>

CallReadAddress ==
    /\ apc \in {"start", "written"}
    /\ result' = ReadAddress(buffer)
    /\ apc' = IF apc = "written" THEN "read" ELSE "rawread"
    /\ UNCHANGED <<address, buffer, cvars, fvars, hvars>>

AddrNext == CallWriteAddress \/ CallReadAddress

----------------------------------------------------------------------------
(* hash/fnv's 64-bit FNV-1a as GenerateChonkle uses it.  The hash is a     *)
(* uint64, <<d3, d2, d1, d0>>.  The prime is 0x100000001B3 = 2^40 + 435.   *)

\* 0xcbf29ce484222325
offset64 == <<52210, 40164, 33826, 8997>>

\* h * prime64 modulo 2^64: 435 * h plus h shifted left by 40 bits, digit by
\* digit with the carries
MulPrime(h) ==
    LET t0 == h[4] * 435
        t1 == h[3] * 435 + (t0 \div 65536)
        t2 == h[2] * 435 + ((h[4] * 256) % 65536) + (t1 \div 65536)
        t3 == h[1] * 435 + ((h[3] * 256) % 65536) + (h[4] \div 256) + (t2 \div 65536)
    IN  <<t3 % 65536, t2 % 65536, t1 % 65536, t0 % 65536>>

RECURSIVE HashWrite(_, _, _, _)
\* hash.Write over bytes[lo..hi] in order: for each byte c, hash ^= c, then
\* hash *= prime64.  The range is halved, and the left half's hash is looked
\* at before the right half is entered, only to keep TLC's evaluation shallow.
HashWrite(h, bytes, lo, hi) ==
    IF lo > hi THEN h
    ELSE IF lo = hi THEN MulPrime([h EXCEPT ![4] = BitXor(h[4], bytes[lo])])
    ELSE LET mid == (lo + hi) \div 2
             left == HashWrite(h, bytes, lo, mid)
         IN  IF Len(left) = 4 THEN HashWrite(left, bytes, mid + 1, hi) ELSE <<>>

\* uint32(packetLength) of an int
Uint32OfInt(n) == <<(n \div 65536) % 65536, n % 65536>>

PortData(port) == PutUint16(<<0, 0>>, 0, <<port>>)
PacketLengthData(n) == PutUint32(<<0, 0, 0, 0>>, 0, Uint32OfInt(n))

----------------------------------------------------------------------------
(* The packet tags.                                                        *)

RECURSIVE SumBytes(_, _, _, _)
\* sum += uint16(bytes[i]) for bytes[lo..hi] in order, in uint16 arithmetic
\* (halved, and the left sum looked at first, only to keep TLC's evaluation
\* shallow)
SumBytes(sum, bytes, lo, hi) ==
    IF lo > hi THEN sum
    ELSE IF lo = hi THEN (sum + bytes[lo]) % 65536
    ELSE LET mid == (lo + hi) \div 2
             left == SumBytes(sum, bytes, lo, mid)
         IN  IF left >= 0 THEN SumBytes(left, bytes, mid + 1, hi) ELSE 0

\* GeneratePittle leaving the destination port out of the sum
GeneratePittleNoToPort(fromAddr, fPort, toAddr, tPort, pktLength) ==
    LET s1 == SumBytes(0, fromAddr, 1, Len(fromAddr))
        s2 == SumBytes(s1, PortData(fPort), 1, 2)
        s3 == SumBytes(s2, toAddr, 1, Len(toAddr))
        sum == SumBytes(s3, PacketLengthData(pktLength), 1, 4)
        sumData == PutUint16(<<0, 0>>, 0, <<sum>>)
        out0 == BitOr(1, BitXor(BitXor(sumData[1], sumData[2]), 193))
        out1 == BitOr(1, BitXor((255 - out0) % 256, 113))
    IN  <<out0, out1>>

GeneratePittle(fromAddr, fPort, toAddr, tPort, pktLength) ==
    LET s1 == SumBytes(0, fromAddr, 1, Len(fromAddr))
        s2 == SumBytes(s1, PortData(fPort), 1, 2)
        s3 == SumBytes(s2, toAddr, 1, Len(toAddr))
        s4 == SumBytes(s3, PortData(tPort), 1, 2)
        sum == SumBytes(s4, PacketLengthData(pktLength), 1, 4)
        sumData == PutUint16(<<0, 0>>, 0, <<sum>>)
        out0 == BitOr(1, BitXor(BitXor(sumData[1], sumData[2]), 193))
        out1 == BitOr(1, BitXor((255 - out0) % 256, 113))
    IN  <<out0, out1>>

\* the fifteen output bytes from the hash bytes d (d[k+1] is data[k]) before
\* their truncation to 8 bits
ChonkleRaw(d) ==
    LET v == BitAnd(d[2], 3)
    IN  << (BitAnd(d[7], 192) \div 64) + 42,
           BitAnd(d[4], 31) + 200,
           (BitAnd(d[3], 252) \div 4) + 5,
           d[1],
           BitAnd(d[3], 3) + 78,
           BitAnd(d[5], 127) + 96,
           (BitAnd(d[2], 252) \div 4) + 100,
           IF BitAnd(d[8], 1) = 0 THEN 79 ELSE 7,
           IF BitAnd(d[5], 128) = 0 THEN 37 ELSE 83,
           BitAnd(d[6], 7) + 124,
           (BitAnd(d[2], 224) \div 32) + 175,
           BitAnd(d[7], 63) + 33,
           IF v = 0 THEN 97 ELSE IF v = 1 THEN 5 ELSE IF v = 2 THEN 43 ELSE 13,
           (BitAnd(d[6], 248) \div 8) + 210,
           (BitAnd(d[8], 254) \div 2) + 17 >>

\* GenerateChonkle from the hash value on: data and the byte stores
ChonkleOfHash(hv) ==
    LET d == PutUint64(<<0, 0, 0, 0, 0, 0, 0, 0>>, 0, hv)
        raw == ChonkleRaw(d)
    IN  [i \in 1..15 |-> raw[i] % 256]

HashOf(mgc, fromAddr, fPort, toAddr, tPort, pktLength) ==
    LET h1 == HashWrite(offset64, mgc, 1, Len(mgc))
        h2 == HashWrite(h1, fromAddr, 1, Len(fromAddr))
        h3 == HashWrite(h2, PortData(fPort), 1, 2)
        h4 == HashWrite(h3, toAddr, 1, Len(toAddr))
        h5 == HashWrite(h4, PortData(tPort), 1, 2)
        h6 == HashWrite(h5, PacketLengthData(pktLength), 1, 4)
    IN  h6

GenerateChonkle(mgc, fromAddr, fPort, toAddr, tPort, pktLength) ==
    ChonkleOfHash(HashOf(mgc, fromAddr, fPort, toAddr, tPort, pktLength))

----------------------------------------------------------------------------
(* The packet filters.  A []byte argument is its bytes up to its capacity  *)
(* (pkt) and its length (n): an index at or past the length panics, a      *)
(* slice bound past the capacity panics.  A verdict is "true", "false" or  *)
(* "panic".                                                                *)

\* the bytes BasicPacketFilter tests, in its order
CheckedOrder == <<0, 1, 2, 3, 5, 6, 7, 8, 9, 10, 11, 12, 13, 14, 15>>

\* Rejects with the last range one short: data[15] > 0x8F
RejectsShortRange(i, v) ==
    CASE i = 0 -> v < 1 \/ v > 99
      [] i = 1 -> v < 42 \/ v > 45
      [] i = 2 -> v < 200 \/ v > 231
      [] i = 3 -> v < 5 \/ v > 68
      [] i = 5 -> v < 78 \/ v > 81
      [] i = 6 -> v < 96 \/ v > 223
      [] i = 7 -> v < 100 \/ v > 227
      [] i = 8 -> v # 7 /\ v # 79
      [] i = 9 -> v # 37 /\ v # 83
      [] i = 10 -> v < 124 \/ v > 131
      [] i = 11 -> v < 175 \/ v > 182
      [] i = 12 -> v < 33 \/ v > 96
      [] i = 13 -> v # 97 /\ v # 5 /\ v # 43 /\ v # 13
      [] i = 14 -> v < 210 \/ v > 241
      [] i = 15 -> v < 17 \/ v > 143

\* the test on data[i] that makes BasicPacketFilter return false
Rejects(i, v) ==
    CASE i = 0 -> v < 1 \/ v > 99
      [] i = 1 -> v < 42 \/ v > 45
      [] i = 2 -> v < 200 \/ v > 231
      [] i = 3 -> v < 5 \/ v > 68
      [] i = 5 -> v < 78 \/ v > 81
      [] i = 6 -> v < 96 \/ v > 223
      [] i = 7 -> v < 100 \/ v > 227
      [] i = 8 -> v # 7 /\ v # 79
      [] i = 9 -> v # 37 /\ v # 83
      [] i = 10 -> v < 124 \/ v > 131
      [] i = 11 -> v < 175 \/ v > 182
      [] i = 12 -> v < 33 \/ v > 96
      [] i = 13 -> v # 97 /\ v # 5 /\ v # 43 /\ v # 13
      [] i = 14 -> v < 210 \/ v > 241
      [] i = 15 -> v < 17 \/ v > 144

BasicPacketFilter(pkt, n, pktLength) ==
    IF pktLength < 18 THEN "false"
    ELSE LET \* the tests that end the run: an index out of range, or a reject
             stops == {k \in 1..Len(CheckedOrder) :
                          CheckedOrder[k] >= n
                              \/ Rejects(CheckedOrder[k], pkt[CheckedOrder[k] + 1])}
         IN  IF stops = {} THEN "true"
             ELSE LET first == CHOOSE k \in stops : \A j \in stops : k <= j
                  IN  IF CheckedOrder[first] >= n THEN "panic" ELSE "false"

\* AdvancedPacketFilter returning after the Chonkle comparison
AdvancedPacketFilterNoPittle(pkt, mgc, fromAddr, fPort, toAddr, tPort, pktLength) ==
    IF pktLength < 18 THEN "false"
    ELSE LET ca == GenerateChonkle(mgc, fromAddr, fPort, toAddr, tPort, pktLength)
         IN  IF 16 > Len(pkt) THEN "panic"
             ELSE IF ca # SubSeq(pkt, 2, 16) THEN "false"
             ELSE "true"

\* AdvancedPacketFilter testing the type byte as BasicPacketFilter does
AdvancedPacketFilterTypeByte(pkt, mgc, fromAddr, fPort, toAddr, tPort, pktLength) ==
    IF pktLength < 18 THEN "false"
    ELSE LET ca == GenerateChonkle(mgc, fromAddr, fPort, toAddr, tPort, pktLength)
             cb == GeneratePittle(fromAddr, fPort, toAddr, tPort, pktLength)
         IN  IF 16 > Len(pkt) THEN "panic"
             ELSE IF Rejects(0, pkt[1]) THEN "false"
             ELSE IF ca # SubSeq(pkt, 2, 16) THEN "false"
             ELSE IF pktLength > Len(pkt) THEN "panic"
             ELSE IF cb # SubSeq(pkt, pktLength - 1, pktLength) THEN "false"
             ELSE "true"

AdvancedPacketFilter(pkt, mgc, fromAddr, fPort, toAddr, tPort, pktLength) ==
    IF pktLength < 18 THEN "false"
    ELSE LET ca == GenerateChonkle(mgc, fromAddr, fPort, toAddr, tPort, pktLength)
             cb == GeneratePittle(fromAddr, fPort, toAddr, tPort, pktLength)
         IN  IF 16 > Len(pkt) THEN "panic"
             ELSE IF ca # SubSeq(pkt, 2, 16) THEN "false"
             ELSE IF pktLength > Len(pkt) THEN "panic"
             ELSE IF cb # SubSeq(pkt, pktLength - 1, pktLength) THEN "false"
             ELSE "true"

----------------------------------------------------------------------------
(* A sender and a receiver that share the context (magic, endpoints and    *)
(* length).  The sender generates the two tags and stamps a packet: type   *)
(* byte, Chonkle, payload, Pittle.  The network may change one byte or cut *)
(* the packet short, or deliver bytes no sender stamped.  The receiver     *)
(* calls the filters with the context; a panic ends it.                    *)

MaxPayload == 3

Magics == {Fill(8, 0), <<1, 2, 3, 4, 5, 6, 7, 8>>}
Lengths == {-1, 0, 17} \cup 18..(18 + MaxPayload) \cup {65791, 50331653}
RegularContexts ==
    [magic : Magics,
     fromAddress : {<<1, 2, 3, 4>>},
     fromPort : {1000},
     toAddress : {<<5, 6, 7, 8>>, <<32, 1, 13, 184>> \o Fill(11, 0) \o <<1>>},
     toPort : {2000, 65535},
     packetLength : Lengths]
\* addresses long enough for the Pittle sum to pass 65535
WrapContexts ==
    {[magic |-> Fill(8, 0), fromAddress |-> Fill(260, 255), fromPort |-> 65535,
      toAddress |-> Fill(16, 255), toPort |-> 65535, packetLength |-> n] : n \in {17}}
Contexts == RegularContexts \cup WrapContexts
TypeBytes == {1, 99}
JunkFills == {0, 255}
JunkLengths == {0, 1, 15, 16, 17, 18, 18 + MaxPayload}

\* the values one changed byte may take
TamperValues(old) == {(old + 1) % 256, 255 - old}

FilterIdle ==
    /\ magic = <<>> /\ fromAddress = <<>> /\ fromPort = 0 /\ toAddress = <<>> /\ toPort = 0
    /\ packetLength = 0 /\ a = <<>> /\ b = <<>> /\ packet = <<>> /\ packetLen = 0
    /\ sent = <<>> /\ tampered = -1 /\ verdictBasic = "none" /\ verdictAdvanced = "none"
    /\ fpc = "off"

FilterInit ==
    /\ \E c \in Contexts :
          /\ magic = c.magic
          /\ fromAddress = c.fromAddress /\ fromPort = c.fromPort
          /\ toAddress = c.toAddress /\ toPort = c.toPort
          /\ packetLength = c.packetLength
    /\ a = <<>> /\ b = <<>> /\ packet = <<>> /\ packetLen = 0
    /\ sent = <<>> /\ tampered = -1 /\ verdictBasic = "none" /\ verdictAdvanced = "none"
    /\ fpc = "start"

context == <<magic, fromAddress, fromPort, toAddress, toPort, packetLength>>

CallGenerateChonkle ==
    /\ fpc = "start"
    /\ a' = GenerateChonkle(magic, fromAddress, fromPort, toAddress, toPort, packetLength)
    /\ fpc' = "chonkle"
    /\ UNCHANGED <<context, b, packet, packetLen, sent, tampered, verdictBasic,
                   verdictAdvanced, cvars, avars, hvars>>

CallGeneratePittle ==
    /\ fpc = "chonkle"
    /\ b' = GeneratePittle(fromAddress, fromPort, toAddress, toPort, packetLength)
    /\ fpc' = "tagged"
    /\ UNCHANGED <<context, a, packet, packetLen, sent, tampered, verdictBasic,
                   verdictAdvanced, cvars, avars, hvars>>

Stamp ==
    /\ fpc = "tagged"
    /\ packetLength \in 18..(18 + MaxPayload)
    /\ \E type \in TypeBytes, fill \in {7} :
          packet' = <<type>> \o a \o Fill(packetLength - 18, fill) \o b
    /\ packetLen' = packetLength
    /\ sent' = packet'
    /\ fpc' = "packet"
    /\ UNCHANGED <<context, a, b, tampered, verdictBasic, verdictAdvanced,
                   cvars, avars, hvars>>

Junk ==
    /\ fpc = "start"
    /\ \E n \in JunkLengths, f \in JunkFills :
          /\ packet' = Fill(n, f)
          /\ packetLen' = n
    /\ fpc' = "junk"
    /\ UNCHANGED <<context, a, b, sent, tampered, verdictBasic, verdictAdvanced,
                   cvars, avars, hvars>>

Unjudged == verdictBasic = "none" /\ verdictAdvanced = "none"

Tamper ==
    /\ fpc = "packet" /\ Unjudged
    /\ \E i \in 0..(packetLen - 1) :
          /\ \E v \in TamperValues(packet[i + 1]) : packet' = [packet EXCEPT ![i + 1] = v]
          /\ tampered' = i
    /\ fpc' = "tampered"
    /\ UNCHANGED <<context, a, b, packetLen, sent, verdictBasic, verdictAdvanced,
                   cvars, avars, hvars>>

Truncate ==
    /\ fpc = "packet" /\ Unjudged
    /\ \E n \in 0..(packetLen - 1), keepCapacity \in BOOLEAN :
          /\ packetLen' = n
          /\ packet' = IF keepCapacity THEN packet ELSE SubSeq(packet, 1, n)
    /\ fpc' = "truncated"
    /\ UNCHANGED <<context, a, b, sent, tampered, verdictBasic, verdictAdvanced,
                   cvars, avars, hvars>>

Received == fpc \in {"packet", "tampered", "truncated", "junk"}

CallBasicPacketFilter ==
    /\ Received
    /\ verdictBasic = "none" /\ verdictAdvanced # "panic"
    /\ verdictBasic' = BasicPacketFilter(packet, packetLen, packetLength)
    /\ UNCHANGED <<context, a, b, packet, packetLen, sent, tampered, verdictAdvanced, fpc,
                   cvars, avars, hvars>>

CallAdvancedPacketFilter ==
    /\ Received
    /\ verdictAdvanced = "none" /\ verdictBasic # "panic"
    /\ verdictAdvanced' =
          AdvancedPacketFilter(packet, magic, fromAddress, fromPort, toAddress, toPort,
                               packetLength)
    /\ UNCHANGED <<context, a, b, packet, packetLen, sent, tampered, verdictBasic, fpc,
                   cvars, avars, hvars>>

FilterNext ==
    \/ CallGenerateChonkle \/ CallGeneratePittle \/ Stamp \/ Junk \/ Tamper \/ Truncate
    \/ CallBasicPacketFilter \/ CallAdvancedPacketFilter

----------------------------------------------------------------------------
(* GenerateChonkle over hash values themselves, whatever context hashes to *)
(* them: the hash is drawn, the Chonkle bytes are laid out from it and put *)
(* in an 18-byte packet behind a type byte, or a forger changes one of     *)
(* them, and BasicPacketFilter judges the packet.                          *)

\* the uint64 whose byte k (0 the least significant) is v and whose other
\* bytes are f
HashWithByte(k, v, f) ==
    [j \in 1..4 |->
        LET lo == IF k = 8 - 2 * j THEN v ELSE f
            hi == IF k = 9 - 2 * j THEN v ELSE f
        IN  hi * 256 + lo]

\* every value of every hash byte, the other bytes zero
ProbeHashes == {HashWithByte(k, v, 0) : k \in 0..7, v \in Byte}
ForgeBases == {HashWithByte(0, 0, 0), HashWithByte(7, 255, 0)}
StampTypes == 0..100 \cup {255}

HashIdle ==
    /\ hashValue = <<0, 0, 0, 0>> /\ output = <<>> /\ header = <<>>
    /\ verdict = "none" /\ hpc = "off"

HashInit ==
    /\ hashValue \in ProbeHashes
    /\ output = <<>> /\ header = <<>> /\ verdict = "none" /\ hpc = "start"

LayOutChonkle ==
    /\ hpc = "start"
    /\ output' = ChonkleOfHash(hashValue)
    /\ hpc' = "chonkle"
    /\ UNCHANGED <<hashValue, header, verdict, cvars, avars, fvars>>

StampHeader ==
    /\ hpc = "chonkle"
    /\ \E type \in StampTypes : header' = <<type>> \o output \o <<1, 1>>
    /\ hpc' = "stamped"
    /\ UNCHANGED <<hashValue, output, verdict, cvars, avars, fvars>>

Forge ==
    /\ hpc = "chonkle"
    /\ hashValue \in ForgeBases
    /\ \E i \in 1..15, v \in Byte :
          header' = [(<<1>> \o output \o <<1, 1>>) EXCEPT ![i + 1] = v]
    /\ hpc' = "forged"
    /\ UNCHANGED <<hashValue, output, verdict, cvars, avars, fvars>>

JudgeHeader ==
    /\ hpc \in {"stamped", "forged"}
    /\ verdict = "none"
    /\ verdict' = BasicPacketFilter(header, Len(header), Len(header))
    /\ UNCHANGED <<hashValue, output, header, hpc, cvars, avars, fvars>>

HashNext == LayOutChonkle \/ StampHeader \/ Forge \/ JudgeHeader

----------------------------------------------------------------------------
(* The specifications.                                                     *)

CodecStart == CodecInit /\ AddrIdle /\ FilterIdle /\ HashIdle
CodecSpec == CodecStart /\ [][CodecNext]_vars

AddrStart == AddrInit /\ CodecIdle /\ FilterIdle /\ HashIdle
AddrSpec == AddrStart /\ [][AddrNext]_vars

FilterStart == FilterInit /\ CodecIdle /\ AddrIdle /\ HashIdle
FilterSpec == FilterStart /\ [][FilterNext]_vars

ChonkleStart == HashInit /\ CodecIdle /\ AddrIdle /\ FilterIdle
ChonkleSpec == ChonkleStart /\ [][HashNext]_vars

----------------------------------------------------------------------------
(* Properties of the byte-cursor codec (CodecSpec).                        *)

Scalars == {"Bool", "Uint8", "Uint16", "Uint32", "Uint64", "Float32", "Float64"}

SizeOf(t) ==
    CASE t \in {"Bool", "Uint8"} -> 1
      [] t = "Uint16" -> 2
      [] t \in {"Uint32", "Float32"} -> 4
      [] t \in {"Uint64", "Float64"} -> 8

\* the unsigned integer a scalar is transmitted as
BitPattern(t, v) ==
    CASE t = "Float32" -> Float32bits(v)
      [] t = "Float64" -> Float64bits(v)
      [] OTHER -> v

\* byte k (0 the least significant) of an unsigned integer
LittleEndianByte(u, k) ==
    LET digit == u[Len(u) - (k \div 2)]
    IN  (digit \div (IF k % 2 = 1 THEN 256 ELSE 1)) % 256

\* C2: whenever a read primitive returns false, the cursor and the output
\* are what they were before the call.
C2_FailedReadLeavesNoTrace ==
    (cpc = "read" /\ ~ok) => (index = p /\ value = Prior)

\* C3: WriteT at p followed by ReadT at p, for a scalar T that fits at p,
\* returns true with the value written, the bytes at p are the value's
\* little-endian encoding, and the write cursor and the read cursor both end
\* at p + sizeof(T).
C3_ScalarRoundTrip ==
    /\ (cpc \in {"written", "read"} /\ wop \in Scalars) =>
          /\ windex = p + SizeOf(wop)
          /\ \A k \in 0..(SizeOf(wop) - 1) :
                data[p + 1 + k] = LittleEndianByte(BitPattern(wop, wvalue), k)
    /\ (cpc = "read" /\ wop \in Scalars) =>
          /\ rop = wop
          /\ ok
          /\ value = wvalue
          /\ index = p + SizeOf(rop)

C3_Witness ==
    /\ cpc = "read" /\ wop = "Float64" /\ rop = "Float64" /\ ok
    /\ value = <<1, 2047, 5, 4660, 22136, 39612>>
    /\ p = 1 /\ index = 9

\* C6: ReadString with maximum M at a cursor where the 4-byte prefix declares
\* n returns false when n > M or n exceeds the bytes left after the prefix,
\* and otherwise returns true with exactly the n bytes after the prefix and
\* the cursor advanced by 4 + n; it never returns a string longer than M.
C6_ReadStringBounds ==
    (cpc = "read" /\ rop = "String" /\ p + 4 <= Len(data)) =>
        LET nLow == data[p + 1] + 256 * data[p + 2]
            nHigh == data[p + 3] + 256 * data[p + 4]
            overMax == nHigh > arg[1] \/ (nHigh = arg[1] /\ nLow > arg[2])
            overrun == nHigh > 0 \/ nLow > Len(data) - (p + 4)
        IN  /\ (overMax \/ overrun) => ~ok
            /\ ~(overMax \/ overrun) =>
                  /\ ok
                  /\ value = SubSeq(data, p + 5, p + 4 + nLow)
                  /\ index = p + 4 + nLow
            /\ ok => (arg[1] > 0 \/ Len(value) <= arg[2])

C6_Witness ==
    /\ cpc = "read" /\ rop = "String" /\ ok
    /\ Len(value) = MaxStr /\ arg = <<0, MaxStr>> /\ index = p + 4 + MaxStr

----------------------------------------------------------------------------
(* Properties of the address codec (AddrSpec).                             *)

\* an IP in the form net.IP compares it in: IPv4 as its four bytes
Canonical(ip) == IF To4(ip) # <<>> THEN To4(ip) ELSE ip

\* C4: WriteAddress into a 19-byte slot followed by ReadAddress yields the
\* original address: no address for no address, and otherwise the same
\* variant, exactly the address's bytes and the same port.
C4_AddressRoundTrip ==
    apc = "read" =>
        /\ result.nil = address.nil
        /\ result.Port = address.Port
        /\ Canonical(result.IP) = Canonical(address.IP)

----------------------------------------------------------------------------
(* Properties of the tags and the filters (FilterSpec).                    *)

TagRegion == 1..15 \cup {packetLength - 2, packetLength - 1}
Intact == fpc = "packet"

\* C1: a stamped packet is accepted by AdvancedPacketFilter called with the
\* context it was stamped under, and is rejected once the value of any single
\* byte of its Chonkle or Pittle region is changed.
C1_AdvancedFilterConsistency ==
    /\ (Intact /\ verdictAdvanced # "none") => verdictAdvanced = "true"
    /\ (fpc = "tampered" /\ tampered \in TagRegion /\ verdictAdvanced # "none")
          => verdictAdvanced = "false"

C1_Witness ==
    /\ fpc = "tampered" /\ tampered = packetLength - 1 /\ packetLength > 18
    /\ verdictAdvanced = "false"
    /\ SubSeq(packet, 2, 16) = a

\* C7: both filters end with an accept or a reject on every input: a buffer
\* shorter than the declared length of 18 or more is rejected, and so is
\* every declared length below 18.
C7_FiltersNeverAbort ==
    /\ verdictBasic \in {"none", "true", "false"}
    /\ verdictAdvanced \in {"none", "true", "false"}
    /\ (packetLen < packetLength \/ packetLength < 18) =>
          /\ verdictBasic \in {"none", "false"}
          /\ verdictAdvanced \in {"none", "false"}

RECURSIVE Total(_, _, _)
\* the sum of bytes[lo..hi] as a number
Total(bytes, lo, hi) ==
    IF lo > hi THEN 0
    ELSE IF lo = hi THEN bytes[lo]
    ELSE Total(bytes, lo, (lo + hi) \div 2) + Total(bytes, (lo + hi) \div 2 + 1, hi)

ByteSum(n, width) ==
    LET RECURSIVE S(_)
        S(k) == IF k = width THEN 0 ELSE ((n \div (IF k = 0 THEN 1 ELSE IF k = 1 THEN 256
                     ELSE IF k = 2 THEN 65536 ELSE 16777216)) % 256) + S(k + 1)
    IN  S(0)

PittleTotal ==
    Total(fromAddress, 1, Len(fromAddress)) + ByteSum(fromPort, 2)
        + Total(toAddress, 1, Len(toAddress)) + ByteSum(toPort, 2)
        + ByteSum(packetLength, 4)

\* bitwise exclusive or of two bytes, bit by bit
XorOfBytes(x, y) ==
    LET bit(z, i) == (z \div (2 ^ i)) % 2
        RECURSIVE X(_)
        X(i) == IF i = 8 THEN 0 ELSE (2 ^ i) * ((bit(x, i) + bit(y, i)) % 2) + X(i + 1)
    IN  X(0)

MadeOdd(x) == IF x % 2 = 1 THEN x ELSE x + 1

\* C9: GeneratePittle outputs 1 | (low XOR high XOR 193) and
\* 1 | ((255 - output[0]) XOR 113) of the sum, modulo 2^16, of every address
\* byte, the two bytes of each port and the four bytes of the length; both
\* output bytes are nonzero.
C9_PittleFormula ==
    b # <<>> =>
        LET sum == PittleTotal % 65536
            out0 == MadeOdd(XorOfBytes(XorOfBytes(sum % 256, sum \div 256), 193))
            out1 == MadeOdd(XorOfBytes(255 - out0, 113))
        IN  /\ b = <<out0, out1>>
            /\ b[1] # 0 /\ b[2] # 0

C9_Witness ==
    /\ fpc = "tagged" /\ PittleTotal > 65535 /\ b # <<>>

\* the packets that differ from pkt in the type byte, in one payload byte, or
\* in all of those
FreePositions == {0} \cup 16..(packetLength - 3)
Alternatives(pkt) ==
    {[pkt EXCEPT ![i + 1] = 255 - pkt[i + 1]] : i \in FreePositions}
        \cup {[k \in 1..Len(pkt) |->
                  IF k - 1 \in FreePositions THEN (pkt[k] + 1) % 256 ELSE pkt[k]]}

\* C10: packets of the same length of 18 or more that agree on bytes [1,16)
\* and on the last two bytes get the same verdict from AdvancedPacketFilter
\* under the same context, whatever their type byte and payload, and the
\* filter leaves the packet as it was.
C10_VerdictIgnoresTypeAndPayload ==
    /\ (verdictAdvanced \in {"true", "false"} /\ packetLength >= 18
            /\ Len(packet) >= packetLength) =>
          \A alt \in Alternatives(packet) :
              AdvancedPacketFilter(alt, magic, fromAddress, fromPort, toAddress, toPort,
                                   packetLength) = verdictAdvanced
    /\ (Intact /\ verdictAdvanced # "none") => packet = sent

C10_Witness ==
    /\ Intact /\ verdictAdvanced = "true" /\ packetLength = 18 + MaxPayload
    /\ packet[1] = 99

----------------------------------------------------------------------------
(* Properties of Chonkle and the basic filter (ChonkleSpec).               *)

HashBytes == PutUint64(<<0, 0, 0, 0, 0, 0, 0, 0>>, 0, hashValue)

\* C5: for every hash value and every type byte in [0x01, 0x63], the packet
\* whose bytes [1,16) are the Chonkle output is accepted by BasicPacketFilter,
\* and no Chonkle output byte wraps around 8 bits.
C5_BasicAcceptsChonkle ==
    /\ (hpc = "stamped" /\ verdict # "none" /\ header[1] \in 1..99) => verdict = "true"
    /\ hpc = "chonkle" =>
          LET raw == ChonkleRaw(HashBytes)
          IN  \A i \in 1..15 : raw[i] <= 255 /\ output[i] = raw[i]

C5_Witness ==
    /\ hpc = "stamped" /\ verdict = "true" /\ header[1] = 99
    /\ hashValue = HashWithByte(7, 255, 0)
    /\ SubSeq(header, 2, 16) = output

\* the values GenerateChonkle can write to output[i-1], over the hash values
Producible == [i \in 1..15 |-> {ChonkleOfHash(h)[i] : h \in ProbeHashes}]

\* C8: at every position BasicPacketFilter checks in [1,16), every byte
\* value it accepts is one GenerateChonkle writes there for some hash value.
C8_AcceptsOnlyProducible ==
    (hpc \in {"stamped", "forged"} /\ verdict = "true") =>
        \A i \in (1..15) \ {4} : header[i + 1] \in Producible[i]

====
